---------------------------- MODULE Spec2Model ----------------------------
(***************************************************************************)
(* Model of editor_de_pdf.py: the N-up layout (Worker._layout_positions),  *)
(* the pagination loop (Worker._generate_pdf), the batch thread            *)
(* (Worker.run) and the part of the window (EditorDePDF) that owns the     *)
(* file list, the pages list and page_order_dict.                          *)
(*                                                                         *)
(* Lengths are integers.  One centimetre is POINTS_PER_CM points; the      *)
(* source's factor 28.346... is cut to 28, a multiple of 4, so that the    *)
(* divisions by 2 and by 4 of _layout_positions are exact on sizes given   *)
(* in whole centimetres (the "Personalizado" size of _page_size).  The     *)
(* geometry is therefore the one of exact arithmetic.                      *)
(* Python sequences are 0-based: s[i] of the source is s[i + 1] here.      *)
(***************************************************************************)
EXTENDS Integers, Sequences, FiniteSets, TLC

(***************************************************************************)
(* Bounds of the model.                                                    *)
(***************************************************************************)
MaxSheetCm == 6         \* sheet sides 1..MaxSheetCm cm (custom_w, custom_h)
MaxCustom == 3          \* pages_custom_spin values 1..MaxCustom
MaxPages == 5           \* pages of a source document in a direct call
MaxOrderLen == 3        \* length of a page_order override in a direct call
MaxBatch == 50          \* documents of a batch run without the window
MaxBatchPages == 1      \* pages of each document of such a batch
MaxFiles == 2           \* entries of EditorDePDF.files
MaxDocPages == 2        \* the loadable documents have 1..MaxDocPages pages

(***************************************************************************)
(* Program constants.                                                      *)
(***************************************************************************)
\* POINTS_PER_CM = 28.346456692913385, cut to its whole part, a multiple of
\* 4: lengths are whole numbers of points and the divisions by 2 and 4 of
\* _layout_positions are exact on sheets and spacings of whole centimetres.
POINTS_PER_CM == 28
SpacingMaxCm == 5       \* spacing_spin.setRange(0, 5)

Supported == {1, 2, 4, 8}
PerSheetChoices == Supported \cup (1..MaxCustom)

None == [some |-> FALSE, val |-> <<>>]
Some(v) == [some |-> TRUE, val |-> v]

Range(s) == {s[i] : i \in 1..Len(s)}
Identity(n) == [i \in 1..n |-> i - 1]          \* list(range(n))
SeqsUpTo(S, n) == UNION {[1..k -> S] : k \in 0..n}
Min(a, b) == IF a < b THEN a ELSE b
Max(a, b) == IF a < b THEN b ELSE a

cm_to_points(value_cm) == value_cm * POINTS_PER_CM

(***************************************************************************)
(* Worker._layout_positions: the slots <<x, y, w, h>> of one sheet.        *)
(***************************************************************************)
_layout_positions_spacing2(page_w, page_h, per_sheet, spacing_cm) ==
    LET s == cm_to_points(spacing_cm) IN
    IF per_sheet = 2 THEN
        LET w == (page_w - 2*s) \div 2
            h == page_h - 2*s
        IN  << <<s, s, w, h>>, <<2*s + w, s, w, h>> >>
    ELSE IF per_sheet = 4 THEN
        LET w == (page_w - 2*s) \div 2
            h == (page_h - 2*s) \div 2
        IN  << <<s, s, w, h>>, <<2*s + w, s, w, h>>,
               <<s, 2*s + h, w, h>>, <<2*s + w, 2*s + h, w, h>> >>
    ELSE IF per_sheet = 8 THEN
        LET w == (page_w - 2*s) \div 4
            h == (page_h - 2*s) \div 2
        IN  << <<s, s, w, h>>, <<2*s + w, s, w, h>>,
               <<3*s + 2*w, s, w, h>>, <<4*s + 3*w, s, w, h>>,
               <<s, 2*s + h, w, h>>, <<2*s + w, 2*s + h, w, h>>,
               <<3*s + 2*w, 2*s + h, w, h>>, <<4*s + 3*w, 2*s + h, w, h>> >>
    ELSE << <<s, s, page_w - 2*s, page_h - 2*s>> >>

_layout_positions(page_w, page_h, per_sheet, spacing_cm) ==
    LET s == cm_to_points(spacing_cm) IN
    IF per_sheet = 2 THEN
        LET w == (page_w - 3*s) \div 2
            h == page_h - 2*s
        IN  << <<s, s, w, h>>, <<2*s + w, s, w, h>> >>
    ELSE IF per_sheet = 4 THEN
        LET w == (page_w - 3*s) \div 2
            h == (page_h - 3*s) \div 2
        IN  << <<s, s, w, h>>, <<2*s + w, s, w, h>>,
               <<s, 2*s + h, w, h>>, <<2*s + w, 2*s + h, w, h>> >>
    ELSE IF per_sheet = 8 THEN
        LET w == (page_w - 5*s) \div 4
            h == (page_h - 3*s) \div 2
        IN  << <<s, s, w, h>>, <<2*s + w, s, w, h>>,
               <<3*s + 2*w, s, w, h>>, <<4*s + 3*w, s, w, h>>,
               <<s, 2*s + h, w, h>>, <<2*s + w, 2*s + h, w, h>>,
               <<3*s + 2*w, 2*s + h, w, h>>, <<4*s + 3*w, 2*s + h, w, h>> >>
    ELSE << <<s, s, page_w - 2*s, page_h - 2*s>> >>

(***************************************************************************)
(* Python float arithmetic of Worker.run's progress value,                 *)
(*     int(((idx_file + 1) / total_files) * 100).                          *)
(* A positive float (IEEE-754 double) is [limbs, exp]: limbs are the 52    *)
(* bits of the significand after its leading 1, as four digits d1..d4 in   *)
(* base 2^13, and the value is                                             *)
(*     (1 + d1/2^13 + d2/2^26 + d3/2^39 + d4/2^52) * 2^exp.                *)
(* Division and multiplication round to nearest, ties to even.             *)
(***************************************************************************)
LimbBase == 2^13

RECURSIVE Log2Floor(_, _)
Log2Floor(a, b) ==      \* the e >= 0 with b * 2^e <= a < b * 2^(e+1), a >= b
    IF a < 2 * b THEN 0 ELSE 1 + Log2Floor(a, 2 * b)

RECURSIVE ShiftUp(_, _)
ShiftUp(a, b) ==        \* the least k >= 0 with a * 2^k >= b
    IF a >= b THEN 0 ELSE 1 + ShiftUp(2 * a, b)

\* limbs + 1 at the last place; a carry out of d1 gives 1.0 * 2^(exp + 1).
FloatIncrement(f) ==
    LET d == f.limbs
        n4 == d[4] + 1
        n3 == d[3] + n4 \div LimbBase
        n2 == d[2] + n3 \div LimbBase
        n1 == d[1] + n2 \div LimbBase
    IN  [limbs |-> <<n1 % LimbBase, n2 % LimbBase, n3 % LimbBase, n4 % LimbBase>>,
         exp |-> f.exp + n1 \div LimbBase]

\* f is the exact result cut after 52 bits; guard is the next bit and sticky
\* says whether anything non-zero follows it.
RoundNearestEven(f, guard, sticky) ==
    IF guard = 1 /\ (sticky \/ f.limbs[4] % 2 = 1) THEN FloatIncrement(f) ELSE f

\* a / b of two positive ints: Python's true division, correctly rounded.
\* Long division in base 2^13 of a1 / b1, scaled so that 1 <= a1 / b1 < 2.
FloatDiv(a, b) ==
    LET up == ShiftUp(a, b)
        down == IF a >= b THEN Log2Floor(a, b) ELSE 0
        a1 == a * 2^up
        b1 == b * 2^down
        r0 == a1 - b1
        d1 == (r0 * LimbBase) \div b1
        r1 == (r0 * LimbBase) % b1
        d2 == (r1 * LimbBase) \div b1
        r2 == (r1 * LimbBase) % b1
        d3 == (r2 * LimbBase) \div b1
        r3 == (r2 * LimbBase) % b1
        d4 == (r3 * LimbBase) \div b1
        r4 == (r3 * LimbBase) % b1
        guard == IF 2 * r4 >= b1 THEN 1 ELSE 0
        sticky == 2 * r4 /= b1 /\ r4 /= 0
    IN  RoundNearestEven([limbs |-> <<d1, d2, d3, d4>>, exp |-> down - up],
                         guard, sticky)

\* f * k for an int k in 2..8191 (k is exact as a float).
FloatMulInt(f, k) ==
    LET d == f.limbs
        t4 == d[4] * k
        t3 == d[3] * k + t4 \div LimbBase
        t2 == d[2] * k + t3 \div LimbBase
        t1 == d[1] * k + t2 \div LimbBase
        top == k + t1 \div LimbBase         \* the part before the point
        q1 == t1 % LimbBase
        q2 == t2 % LimbBase
        q3 == t3 % LimbBase
        q4 == t4 % LimbBase
        sh == Log2Floor(top, 1)             \* places to shift right
        lo == 2^sh
        hi == LimbBase \div lo
        n1 == (top % lo) * hi + q1 \div lo
        n2 == (q1 % lo) * hi + q2 \div lo
        n3 == (q2 % lo) * hi + q3 \div lo
        n4 == (q3 % lo) * hi + q4 \div lo
        dropped == q4 % lo
        guard == IF 2 * dropped >= lo THEN 1 ELSE 0
        sticky == (2 * dropped) % lo /= 0
    IN  RoundNearestEven([limbs |-> <<n1, n2, n3, n4>>, exp |-> f.exp + sh],
                         guard, sticky)

\* int(f): truncation of a positive float below 2^26.
FloatToInt(f) ==
    IF f.exp < 0 THEN 0
    ELSE IF f.exp <= 13 THEN 2^f.exp + f.limbs[1] \div 2^(13 - f.exp)
    ELSE 2^f.exp + f.limbs[1] * 2^(f.exp - 13) + f.limbs[2] \div 2^(26 - f.exp)

\* int(((idx_file + 1) / total_files) * 100)
ProgressValue(idx_file, total_files) ==
    FloatToInt(FloatMulInt(FloatDiv(idx_file + 1, total_files), 100))

(***************************************************************************)
(* State.                                                                  *)
(***************************************************************************)
VARIABLES
    files,            \* EditorDePDF.files: sequence of PDFItem
    current_row,      \* list_widget.currentRow(), -1 when there is none
    pages_list,       \* pages_list: its items in displayed order, each item
                      \* named by the page index it was created for
    page_order_dict,  \* EditorDePDF.page_order_dict: position -> page order
    output_line,      \* output_line.text()
    settings,         \* the size, orientation, pages-per-sheet and spacing widgets
    preview,          \* the last generate_preview: the rows it read and the
                      \* page_order it passed to _generate_pdf
    worker,           \* the fields of the Worker built by on_generate_clicked
    run,              \* Worker.run: its position and local variables
    gen,              \* Worker._generate_pdf: its position and local variables
    progress,         \* the values emitted on Worker.progress, in order
    finished,         \* the number of emissions of Worker.finished
    error,            \* the number of emissions of Worker.error
    out_files,        \* the output documents written (Canvas.save)
    temp_files,       \* the temporary page images that exist
    calls,            \* the calls of _generate_pdf made by Worker.run
    clicked,          \* files and page_order_dict as on_generate_clicked saw them
    faulty,           \* whether rasterizing and drawing can fail in this behaviour
    lay               \* a call of _layout_positions: its arguments and result

windowVars == <<files, current_row, pages_list, page_order_dict, output_line,
                settings, preview>>
signalVars == <<progress, finished, error>>
threadVars == <<worker, run, gen, progress, finished, error, out_files,
                temp_files, calls, clicked, faulty>>
vars == <<files, current_row, pages_list, page_order_dict, output_line,
          settings, preview, worker, run, gen, progress, finished, error,
          out_files, temp_files, calls, clicked, faulty, lay>>

(***************************************************************************)
(* Documents.  A path is a directory and a base name; pages stands for the *)
(* file found there: its number of pages, or -1 for a file that cannot be  *)
(* opened.                                                                 *)
(***************************************************************************)
Path(name, pages) == [dir |-> "in", name |-> name, pages |-> pages]
PDFItem(path, num_pages) == [path |-> path, num_pages |-> num_pages]
NumPages(path) == path.pages                \* len(PdfReader(path).pages)
Readable(path) == path.pages >= 0
NoItem == PDFItem(Path(0, 0), 0)

\* os.path.join(output_folder, f"{base}_editado.pdf"), base the file's name
\* without its directory and extension
OutPath(output_folder, path) == [dir |-> output_folder, name |-> path.name]

Get(dict, key) == IF key \in DOMAIN dict THEN Some(dict[key]) ELSE None
Put(dict, key, val) ==
    [k \in DOMAIN dict \cup {key} |-> IF k = key THEN val ELSE dict[k]]
Del(dict, key) == [k \in DOMAIN dict \ {key} |-> dict[k]]
EmptyDict == [k \in {} |-> <<>>]

\* EditorDePDF._page_size with "Personalizado"
_page_size(size_cm) == <<cm_to_points(size_cm[1]), cm_to_points(size_cm[2])>>

(***************************************************************************)
(* Worker._generate_pdf.  The frame gen holds the call's arguments and     *)
(* locals; sheet is the canvas page being drawn, sheets the pages already  *)
(* finalized by showPage, placed the drawImage calls made so far.          *)
(***************************************************************************)
GenNone ==
    [pc |-> "none", input_pdf |-> NoItem.path, output_pdf |-> OutPath("", NoItem.path),
     page_order |-> None, page_size |-> <<0, 0>>, positions |-> <<>>,
     total_pages |-> 0, page_indices |-> <<>>, idx |-> 0, slot |-> 0,
     temp_img |-> <<0, 0>>, sheet |-> <<>>, sheets |-> <<>>, placed |-> <<>>,
     raised |-> "none"]

\* The frame of a call that has not run yet.
GenCall(input_pdf, output_pdf, order) ==
    [GenNone EXCEPT !.pc = "begin", !.input_pdf = input_pdf,
                    !.output_pdf = output_pdf, !.page_order = order]

\* lines 75-79: the sheet in the requested orientation
OrientedSize(size_pts, orientation) ==
    IF orientation = "Horizontal"
    THEN <<Max(size_pts[1], size_pts[2]), Min(size_pts[1], size_pts[2])>>
    ELSE <<Min(size_pts[1], size_pts[2]), Max(size_pts[1], size_pts[2])>>

\* lines 85-88
PageIndices(order, total_pages) ==
    IF order.some /\ order.val /= <<>> THEN order.val ELSE Identity(total_pages)

\* line 91: the test of the while loop, entered with slot = 0
WhilePc(idx, total_pages) == IF idx < total_pages THEN "png" ELSE "save"

\* The for loop without its test of idx (lines 93-94 left out).
ForPc_NoBreak(slot, idx, total_pages, per_sheet) ==
    IF slot < per_sheet THEN "png" ELSE "show"

\* lines 92-94: the next turn of the for loop after a placement
ForPc(slot, idx, total_pages, per_sheet) ==
    IF slot < per_sheet /\ ~(idx >= total_pages) THEN "png" ELSE "show"

\* Whether a call of the rasterizer or of drawImage succeeds.
Outcomes == IF faulty THEN BOOLEAN ELSE {TRUE}

\* lines 74-91: reader, canvas, positions, page_indices, idx = 0
GenBegin ==
    /\ gen.pc = "begin"
    /\ LET size == OrientedSize(worker.page_size_pts, worker.orientation)
           total == NumPages(gen.input_pdf)
       IN  gen' = [gen EXCEPT
                !.page_size = size,
                !.positions = _layout_positions(size[1], size[2],
                                  worker.pages_per_sheet, worker.spacing_cm),
                !.total_pages = total,
                !.page_indices = PageIndices(gen.page_order, total),
                !.idx = 0, !.slot = 0,
                !.pc = WhilePc(0, total)]
    /\ UNCHANGED <<windowVars, worker, run, signalVars, out_files, temp_files,
                   calls, clicked, faulty, lay>>

\* lines 95-96 and _save_page_as_png (104-110).  The image file is named by
\* a fresh uuid4, here the call's number and idx.  Rasterizing can fail; it
\* then leaves no file behind.
GenSavePng ==
    /\ gen.pc = "png"
    /\ LET temp_img == <<Len(calls), gen.idx>> IN
       IF gen.idx >= Len(gen.page_indices)
       THEN /\ gen' = [gen EXCEPT !.pc = "raised", !.raised = "IndexError"]
            /\ UNCHANGED temp_files
       ELSE IF gen.page_indices[gen.idx + 1] >= gen.total_pages
       THEN /\ gen' = [gen EXCEPT !.pc = "raised", !.raised = "RasterError"]
            /\ UNCHANGED temp_files
       ELSE \E ok \in Outcomes :
            IF ok
            THEN /\ gen' = [gen EXCEPT !.pc = "draw", !.temp_img = temp_img]
                 /\ temp_files' = temp_files \cup {temp_img}
            ELSE /\ gen' = [gen EXCEPT !.pc = "raised", !.raised = "RasterError"]
                 /\ UNCHANGED temp_files
    /\ UNCHANGED <<windowVars, worker, run, signalVars, out_files, calls,
                   clicked, faulty, lay>>

\* lines 97-100: positions[slot], drawImage, os.remove, idx += 1
GenDraw ==
    /\ gen.pc = "draw"
    /\ IF gen.slot >= Len(gen.positions)
       THEN /\ gen' = [gen EXCEPT !.pc = "raised", !.raised = "IndexError"]
            /\ UNCHANGED temp_files
       ELSE \E ok \in Outcomes :
            IF ok
            THEN /\ gen' = [gen EXCEPT
                      !.sheet = Append(@, [page |-> gen.page_indices[gen.idx + 1],
                                           slot |-> gen.slot,
                                           rect |-> gen.positions[gen.slot + 1]]),
                      !.placed = Append(@, [page |-> gen.page_indices[gen.idx + 1],
                                            slot |-> gen.slot,
                                            sheet |-> Len(gen.sheets)]),
                      !.idx = @ + 1,
                      !.slot = @ + 1,
                      !.pc = ForPc(gen.slot + 1, gen.idx + 1, gen.total_pages,
                                   worker.pages_per_sheet)]
                 /\ temp_files' = temp_files \ {gen.temp_img}
            ELSE /\ gen' = [gen EXCEPT !.pc = "raised", !.raised = "DrawError"]
                 /\ UNCHANGED temp_files
    /\ UNCHANGED <<windowVars, worker, run, signalVars, out_files, calls,
                   clicked, faulty, lay>>

\* line 101, then the test of the while loop
GenShowPage ==
    /\ gen.pc = "show"
    /\ gen' = [gen EXCEPT !.sheets = Append(@, gen.sheet), !.sheet = <<>>,
                          !.slot = 0,
                          !.pc = WhilePc(gen.idx, gen.total_pages)]
    /\ UNCHANGED <<windowVars, worker, run, signalVars, out_files, temp_files,
                   calls, clicked, faulty, lay>>

\* line 102: the document is written to output_pdf
GenSave ==
    /\ gen.pc = "save"
    /\ gen' = [gen EXCEPT !.pc = "returned"]
    /\ out_files' = out_files \cup {gen.output_pdf}
    /\ UNCHANGED <<windowVars, worker, run, signalVars, temp_files, calls,
                   clicked, faulty, lay>>

Generate == GenBegin \/ GenSavePng \/ GenDraw \/ GenShowPage \/ GenSave

(***************************************************************************)
(* Worker.run.  It iterates self.files, the list object it was given, and  *)
(* reads self.page_order_dict, which is the window's dict unless that was  *)
(* empty when the Worker was built (page_order_dict or {}).                *)
(***************************************************************************)
RunIdle ==
    [pc |-> "idle", total_files |-> 0, it |-> 0, idx_file |-> 0, item |-> NoItem]

WorkerObject(size_pts, orientation, per_sheet, spacing_cm, folder, dict) ==
    [page_size_pts |-> size_pts, orientation |-> orientation,
     pages_per_sheet |-> per_sheet, spacing_cm |-> spacing_cm,
     output_folder |-> folder, shares_dict |-> dict /= EmptyDict]

\* self.page_order_dict.get(idx_file, None)
WorkerOrder(idx_file) ==
    IF worker.shares_dict THEN Get(page_order_dict, idx_file) ELSE None

\* lines 59-62
RunStart ==
    /\ run.pc = "start"
    /\ IF Len(files) = 0
       THEN /\ error' = error + 1
            /\ run' = [run EXCEPT !.pc = "done"]
       ELSE /\ run' = [run EXCEPT !.pc = "iter", !.total_files = Len(files), !.it = 0]
            /\ UNCHANGED error
    /\ UNCHANGED <<windowVars, worker, gen, progress, finished, out_files,
                   temp_files, calls, clicked, faulty, lay>>

\* line 63: the next (idx_file, item) of enumerate(self.files), or its end
RunIter ==
    /\ run.pc = "iter"
    /\ IF run.it < Len(files)
       THEN run' = [run EXCEPT !.pc = "order", !.idx_file = run.it,
                               !.item = files[run.it + 1], !.it = run.it + 1]
       ELSE run' = [run EXCEPT !.pc = "finish"]
    /\ UNCHANGED <<windowVars, worker, gen, signalVars, out_files, temp_files,
                   calls, clicked, faulty, lay>>

\* lines 64-67: out_path, order, and the call of _generate_pdf
RunCall ==
    /\ run.pc = "order"
    /\ LET order == WorkerOrder(run.idx_file)
           out_path == OutPath(worker.output_folder, run.item.path)
       IN  /\ gen' = GenCall(run.item.path, out_path, order)
           /\ calls' = Append(calls, [item |-> run.item, order |-> order])
    /\ run' = [run EXCEPT !.pc = "gen"]
    /\ UNCHANGED <<windowVars, worker, signalVars, out_files, temp_files,
                   clicked, faulty, lay>>

\* line 68, after _generate_pdf has returned (its frame is gone)
RunProgress ==
    /\ run.pc = "gen"
    /\ gen.pc = "returned"
    /\ progress' = Append(progress, ProgressValue(run.idx_file, run.total_files))
    /\ run' = [run EXCEPT !.pc = "iter"]
    /\ gen' = GenNone
    /\ UNCHANGED <<windowVars, worker, finished, error, out_files,
                   temp_files, calls, clicked, faulty, lay>>

\* line 69
RunFinished ==
    /\ run.pc = "finish"
    /\ finished' = finished + 1
    /\ run' = [run EXCEPT !.pc = "done"]
    /\ UNCHANGED <<windowVars, worker, gen, progress, error, out_files,
                   temp_files, calls, clicked, faulty, lay>>

\* A handler that reports the failure and goes on with the next document.
RunExcept_Continue ==
    /\ run.pc = "gen"
    /\ gen.pc = "raised"
    /\ error' = error + 1
    /\ run' = [run EXCEPT !.pc = "iter"]
    /\ gen' = GenNone
    /\ UNCHANGED <<windowVars, worker, progress, finished, out_files,
                   temp_files, calls, clicked, faulty, lay>>

\* lines 70-71: an exception of _generate_pdf ends the run
RunExcept ==
    /\ run.pc = "gen"
    /\ gen.pc = "raised"
    /\ error' = error + 1
    /\ run' = [run EXCEPT !.pc = "done"]
    /\ gen' = GenNone
    /\ UNCHANGED <<windowVars, worker, progress, finished, out_files,
                   temp_files, calls, clicked, faulty, lay>>

WorkerRun ==
    RunStart \/ RunIter \/ RunCall \/ RunProgress \/ RunFinished \/ RunExcept

(***************************************************************************)
(* Initial values shared by the specifications.                            *)
(***************************************************************************)
SizesCm == (1..MaxSheetCm) \X (1..MaxSheetCm)
Orientations == {"Vertical", "Horizontal"}
NoPreview == [called |-> FALSE, rows |-> <<>>, page_order |-> <<>>]
NoLayout == [args |-> <<0, 0, 0, 0>>, slots |-> <<>>, done |-> TRUE]
NoClick == [files |-> <<>>, dict |-> EmptyDict]
DefaultSettings ==
    [size_cm |-> <<2, 3>>, orientation |-> "Vertical", pages_per_sheet |-> 1,
     spacing_cm |-> 0]

WindowInit ==
    /\ files = <<>>
    /\ current_row = -1
    /\ pages_list = <<>>
    /\ page_order_dict = EmptyDict
    /\ output_line = ""
    /\ preview = NoPreview

ThreadInit ==
    /\ run = RunIdle
    /\ gen = GenNone
    /\ progress = <<>>
    /\ finished = 0
    /\ error = 0
    /\ out_files = {}
    /\ temp_files = {}
    /\ calls = <<>>
    /\ clicked = NoClick
    /\ faulty = TRUE

(***************************************************************************)
(* SpecLayout: one call of _layout_positions on any sheet of whole         *)
(* centimetres, any pages-per-sheet value and any spacing of the spin box. *)
(***************************************************************************)
LayoutCall ==
    /\ ~lay.done
    /\ lay' = [lay EXCEPT
                 !.slots = _layout_positions(lay.args[1], lay.args[2],
                                             lay.args[3], lay.args[4]),
                 !.done = TRUE]
    /\ UNCHANGED <<windowVars, threadVars>>

InitLayout ==
    /\ WindowInit
    /\ ThreadInit
    /\ settings = DefaultSettings
    /\ worker = WorkerObject(_page_size(<<2, 3>>), "Vertical", 1, 0, "", EmptyDict)
    /\ \E size \in SizesCm, per_sheet \in PerSheetChoices, s \in 0..SpacingMaxCm :
         lay = [args |-> <<_page_size(size)[1], _page_size(size)[2], per_sheet, s>>,
                slots |-> <<>>, done |-> FALSE]

SpecLayout == InitLayout /\ [][LayoutCall]_vars

(***************************************************************************)
(* SpecGen: one direct call of _generate_pdf (as generate_preview makes    *)
(* it) on a document of 0..MaxPages pages, with no page_order or with any  *)
(* override of at most MaxOrderLen entries, each a page index of the       *)
(* document or the first index past its end.                               *)
(***************************************************************************)
Overrides(n) == {Some(o) : o \in SeqsUpTo(0..n, MaxOrderLen)}

InitGen ==
    /\ WindowInit
    /\ settings = DefaultSettings
    /\ run = RunIdle
    /\ progress = <<>> /\ finished = 0 /\ error = 0
    /\ out_files = {} /\ temp_files = {}
    /\ calls = <<>>
    /\ clicked = NoClick
    /\ faulty = TRUE
    /\ lay = NoLayout
    /\ \E per_sheet \in PerSheetChoices, orientation \in Orientations :
         worker = WorkerObject(_page_size(<<2, 3>>), orientation, per_sheet, 0,
                               "tmp", EmptyDict)
    /\ \E n \in 0..MaxPages :
       \E order \in {None} \cup Overrides(n) :
         gen = GenCall(Path(1, n), OutPath("tmp", Path(1, n)), order)

SpecGen == InitGen /\ [][Generate]_vars

(***************************************************************************)
(* SpecBatch: Worker.run alone, on a batch of 0..MaxBatch documents of     *)
(* 1..MaxBatchPages pages each and no page orders.                         *)
(***************************************************************************)
InitBatch ==
    /\ current_row = -1
    /\ pages_list = <<>>
    /\ page_order_dict = EmptyDict
    /\ output_line = "out"
    /\ preview = NoPreview
    /\ settings = DefaultSettings
    /\ lay = NoLayout
    /\ gen = GenNone
    /\ progress = <<>> /\ finished = 0 /\ error = 0
    /\ out_files = {} /\ temp_files = {}
    /\ calls = <<>>
    /\ faulty = TRUE
    /\ \E n \in 0..MaxBatch, pages \in 1..MaxBatchPages :
         files = [i \in 1..n |-> PDFItem(Path(i, pages), pages)]
    /\ clicked = [files |-> files, dict |-> EmptyDict]
    /\ worker = WorkerObject(_page_size(<<2, 3>>), "Vertical", 1, 0, "out", EmptyDict)
    /\ run = [RunIdle EXCEPT !.pc = "start"]

SpecBatch == InitBatch /\ [][WorkerRun \/ Generate]_vars

(***************************************************************************)
(* EditorDePDF: the handlers of the window.                                *)
(***************************************************************************)
\* QListWidget.row(item): the row at which the item is found
Row(list, item) == (CHOOSE j \in 1..Len(list) : list[j] = item) - 1

\* [self.pages_list.row(self.pages_list.item(i)) for i in range(count)]
RowsOfItems(list) == [i \in 1..Len(list) |-> Row(list, list[i])]

\* fill_pages_list(idx_file), lines 289-299: what it leaves in pages_list
\* and page_order_dict (self.page_order is only ever copied into the dict)
fill_pages_list(idx_file, fs, dict) ==
    IF idx_file < 0 \/ idx_file >= Len(fs)
    THEN [pages_list |-> <<>>, dict |-> dict]
    ELSE LET page_order == Identity(fs[idx_file + 1].num_pages) IN
         [pages_list |-> Identity(fs[idx_file + 1].num_pages),
          dict |-> Put(dict, idx_file, page_order)]

\* load_files, lines 270-278, for one path chosen in the dialog (a dialog
\* that returns several paths appends them one after the other)
LoadFiles ==
    /\ Len(files) < MaxFiles
    /\ \E p \in {Path(0, -1)} \cup {Path(k, k) : k \in 1..MaxDocPages} :
         files' = IF Readable(p) THEN Append(files, PDFItem(p, NumPages(p)))
                  ELSE files
    /\ UNCHANGED <<current_row, pages_list, page_order_dict, output_line,
                   settings, preview, threadVars, lay>>

\* The user selects another row of list_widget: currentRowChanged calls
\* fill_pages_list (line 264).
SelectRow ==
    \E i \in 0..(Len(files) - 1) :
        /\ i /= current_row
        /\ current_row' = i
        /\ LET f == fill_pages_list(i, files, page_order_dict) IN
             /\ pages_list' = f.pages_list
             /\ page_order_dict' = f.dict
        /\ UNCHANGED <<files, output_line, settings, preview, threadVars, lay>>

\* remove_selected, lines 280-287.  takeItem(r) removes the current item, so
\* the list widget first makes a neighbour current (the row above, or else
\* the row below) and emits currentRowChanged with that row, which runs
\* fill_pages_list while self.files still holds the removed document.
RemoveSelected ==
    /\ current_row >= 0
    /\ LET r == current_row
           emitted == IF r > 0 THEN r - 1 ELSE IF Len(files) > 1 THEN 1 ELSE -1
           f == fill_pages_list(emitted, files, page_order_dict)
       IN  /\ current_row' = IF r > 0 THEN r - 1
                             ELSE IF Len(files) > 1 THEN 0 ELSE -1
           /\ files' = SubSeq(files, 1, r) \o SubSeq(files, r + 2, Len(files))
           /\ pages_list' = <<>>
           /\ page_order_dict' = IF r \in DOMAIN f.dict THEN Del(f.dict, r) ELSE f.dict
    /\ preview' = NoPreview
    /\ UNCHANGED <<output_line, settings, threadVars, lay>>

\* The list after the item at row from has been dragged to row to.
Moved(list, from, to) ==
    LET without == SubSeq(list, 1, from - 1) \o SubSeq(list, from + 1, Len(list))
    IN  SubSeq(without, 1, to - 1) \o <<list[from]>> \o SubSeq(without, to, Len(without))

\* update_page_order, lines 311-315: the dict it leaves
update_page_order(list, idx_file, dict) ==
    LET page_order == RowsOfItems(list) IN
    IF idx_file >= 0 THEN Put(dict, idx_file, page_order) ELSE dict

\* A drag-and-drop move inside pages_list: rowsMoved calls update_page_order
\* (line 195).
MoveRow ==
    \E from \in 1..Len(pages_list), to \in 1..Len(pages_list) :
        /\ from /= to
        /\ pages_list' = Moved(pages_list, from, to)
        /\ page_order_dict' = update_page_order(pages_list', current_row,
                                                page_order_dict)
        /\ UNCHANGED <<files, current_row, output_line, settings, preview,
                       threadVars, lay>>

\* generate_preview, lines 324-341: the page order it reads off pages_list
\* and passes to _generate_pdf (SpecGen explores that call).
GeneratePreview ==
    /\ files /= <<>>
    /\ preview' = [called |-> TRUE, rows |-> pages_list,
                   page_order |-> RowsOfItems(pages_list)]
    /\ UNCHANGED <<files, current_row, pages_list, page_order_dict,
                   output_line, settings, threadVars, lay>>

\* choose_output_folder, lines 361-363
ChooseOutputFolder ==
    /\ output_line /= "out"
    /\ output_line' = "out"
    /\ UNCHANGED <<files, current_row, pages_list, page_order_dict, settings,
                   preview, threadVars, lay>>

\* on_generate_clicked, lines 365-381: the Worker is given self.files and
\* self.page_order_dict themselves and started.  One batch is started in a
\* behaviour.
OnGenerateClicked ==
    /\ files /= <<>>
    /\ output_line /= ""
    /\ run.pc = "idle"
    /\ worker' = WorkerObject(_page_size(settings.size_cm), settings.orientation,
                              settings.pages_per_sheet, settings.spacing_cm,
                              output_line, page_order_dict)
    /\ run' = [run EXCEPT !.pc = "start"]
    /\ clicked' = [files |-> files, dict |-> page_order_dict]
    /\ UNCHANGED <<windowVars, gen, signalVars, out_files, temp_files, calls,
                   faulty, lay>>

\* The handlers that change what the Worker shares with the window.
Lists == LoadFiles \/ SelectRow \/ RemoveSelected \/ MoveRow

(***************************************************************************)
(* SpecWindow: the window alone, before any batch is started.              *)
(***************************************************************************)
InitWindow ==
    /\ WindowInit
    /\ ThreadInit
    /\ lay = NoLayout
    /\ settings = DefaultSettings
    /\ worker = WorkerObject(_page_size(<<2, 3>>), "Vertical", 1, 0, "", EmptyDict)

SpecWindow ==
    InitWindow /\ [][Lists \/ GeneratePreview \/ ChooseOutputFolder]_vars

(***************************************************************************)
(* Spec: the window and the Worker thread it starts, interleaved, with the *)
(* output folder chosen and a rasterizer and canvas that do not fail.  The *)
(* window's events are followed until the batch has ended.                 *)
(***************************************************************************)
Init ==
    /\ files = <<>>
    /\ current_row = -1
    /\ pages_list = <<>>
    /\ page_order_dict = EmptyDict
    /\ output_line = "out"
    /\ preview = NoPreview
    /\ run = RunIdle
    /\ gen = GenNone
    /\ progress = <<>> /\ finished = 0 /\ error = 0
    /\ out_files = {} /\ temp_files = {}
    /\ calls = <<>>
    /\ clicked = NoClick
    /\ faulty = FALSE
    /\ lay = NoLayout
    /\ settings = DefaultSettings
    /\ worker = WorkerObject(_page_size(<<2, 3>>), "Vertical", 1, 0, "", EmptyDict)

Next ==
    \/ run.pc /= "done" /\ Lists
    \/ OnGenerateClicked
    \/ WorkerRun
    \/ Generate

Spec == Init /\ [][Next]_vars

(***************************************************************************)
(* Properties.                                                             *)
(***************************************************************************)
CeilDiv(n, p) == (n + p - 1) \div p

\* The page order a call is given: the override, or the identity.
GivenOrder == IF gen.page_order.some THEN gen.page_order.val
              ELSE Identity(NumPages(gen.input_pdf))

\* C1: with pages_per_sheet p in {1,2,4,8} and a page order of length n (the
\* identity when none is given), the k-th placement puts page order[k] into
\* slot k mod p of sheet k div p and no index is out of range; a call that
\* returns has made n placements and finalized ceil(n/p) sheets, all of p
\* pages but the last, which holds n - p*(ceil(n/p) - 1).
C1_Pagination ==
    LET p == worker.pages_per_sheet
        n == NumPages(gen.input_pdf)
        nsheets == CeilDiv(n, p)
    IN  (gen.pc /= "none" /\ p \in Supported /\ Len(GivenOrder) = n) =>
          /\ gen.raised /= "IndexError"
          /\ \A k \in 0..(Len(gen.placed) - 1) :
                gen.placed[k + 1] = [page |-> GivenOrder[k + 1], slot |-> k % p,
                                     sheet |-> k \div p]
          /\ Len(gen.placed) <= n
          /\ Len(gen.sheets) <= nsheets
          /\ gen.pc = "returned" =>
                /\ Len(gen.placed) = n
                /\ Len(gen.sheets) = nsheets
                /\ \A j \in 1..nsheets :
                      Len(gen.sheets[j]) = IF j < nsheets THEN p
                                           ELSE n - p * (nsheets - 1)
                /\ \A j \in 1..nsheets : \A i \in 1..Len(gen.sheets[j]) :
                      /\ gen.sheets[j][i].page = GivenOrder[(j - 1) * p + i]
                      /\ gen.sheets[j][i].slot = i - 1

\* C1's case: 5 pages, 4 per sheet, returned with 2 sheets, the second
\* holding one page.
C1_Witness ==
    /\ gen.pc = "returned"
    /\ worker.pages_per_sheet = 4
    /\ NumPages(gen.input_pdf) = 5
    /\ Len(gen.sheets) = 2
    /\ Len(gen.sheets[2]) = 1

\* C2: with a pages-per-sheet value outside {1,2,4,8} and no page order, the
\* layout has exactly one slot, every placement uses a slot of the layout,
\* every sheet holds one page and no index is out of range.
C2_FallbackOneSlot ==
    (gen.pc \notin {"none", "begin"} /\ worker.pages_per_sheet \notin Supported
        /\ gen.page_order = None) =>
          /\ Len(gen.positions) = 1
          /\ \A k \in 1..Len(gen.placed) : gen.placed[k].slot < Len(gen.positions)
          /\ \A j \in 1..Len(gen.sheets) : Len(gen.sheets[j]) = 1
          /\ gen.raised /= "IndexError"

\* C3: with a non-empty page_order override of pages of the document, no
\* index is out of range and a call that returns has made len(page_order)
\* placements on ceil(len(page_order) / pages_per_sheet) sheets.
C3_OverrideExhausted ==
    LET p == worker.pages_per_sheet
        order == gen.page_order.val
    IN  (gen.pc /= "none" /\ gen.page_order.some /\ order /= <<>>
            /\ \A i \in 1..Len(order) : order[i] < NumPages(gen.input_pdf)) =>
          /\ gen.raised /= "IndexError"
          /\ gen.pc = "returned" =>
                /\ Len(gen.placed) = Len(order)
                /\ Len(gen.sheets) = CeilDiv(Len(order), p)

\* C4: when the generation of document k of a batch fails, the run emits one
\* error and no finished, has emitted progress for the k documents before
\* it only, has called _generate_pdf for documents 0..k only, and the
\* output files written are exactly those of documents 0..k-1.
C4_AbortOnFailure ==
    LET failed == run.pc = "gen" /\ gen.pc = "raised"
        aborted == run.pc = "done" /\ error > 0 /\ Len(files) > 0
        k == run.idx_file
    IN  (failed \/ aborted) =>
          /\ finished = 0
          /\ error = IF aborted THEN 1 ELSE 0
          /\ Len(progress) = k
          /\ Len(calls) = k + 1
          /\ \A j \in 1..(k + 1) : calls[j].item = files[j]
          /\ out_files = {OutPath(worker.output_folder, files[j].path) : j \in 1..k}

\* C4's case: the third document of a batch failed and the run has ended.
C4_Witness ==
    /\ run.pc = "done"
    /\ error = 1
    /\ run.idx_file = 2
    /\ Len(files) > 3
    /\ Len(progress) = 2
    /\ Cardinality(out_files) = 2

\* C5: at most one temporary page image exists at any moment, and none
\* exists when a sheet is finalized or when _generate_pdf returns or raises.
C5_TempImagesRemoved ==
    /\ Cardinality(temp_files) <= 1
    /\ gen.pc \in {"show", "save", "returned", "raised"} => temp_files = {}

\* C6: in a batch of N >= 1 documents the i-th progress value is
\* floor(100*i/N), emitted after document i is saved and before document
\* i+1 is started; a run without failure ends with N values, one finished
\* and no error.
C6_ProgressIsFloor ==
    LET N == Len(files) IN
    N >= 1 =>
      /\ \A i \in 1..Len(progress) : progress[i] = (100 * i) \div N
      /\ Len(progress) <= Cardinality(out_files)
      /\ Len(calls) <= Len(progress) + 1
      /\ finished = 1 => Len(progress) = N /\ error = 0
      /\ (run.pc = "done" /\ error = 0) => finished = 1

\* The grid of a supported pages-per-sheet value.
GridRows(v) == IF v \in {4, 8} THEN 2 ELSE 1
GridCols(v) == v \div GridRows(v)

\* The region a slot covers, whatever the signs of its width and height.
SlotLeft(q) == Min(q[1], q[1] + q[3])
SlotRight(q) == Max(q[1], q[1] + q[3])
SlotBottom(q) == Min(q[2], q[2] + q[4])
SlotTop(q) == Max(q[2], q[2] + q[4])
Overlap(q, r) ==
    /\ SlotLeft(q) < SlotRight(r) /\ SlotLeft(r) < SlotRight(q)
    /\ SlotBottom(q) < SlotTop(r) /\ SlotBottom(r) < SlotTop(q)
Contained(q, page_w, page_h) ==
    /\ 0 <= SlotLeft(q) /\ SlotRight(q) <= page_w
    /\ 0 <= SlotBottom(q) /\ SlotTop(q) <= page_h

\* The slots of lay are the v slots of the grid in fill order, they do not
\* overlap and they lie within the sheet.
SlotsAsSpecified ==
    LET page_w == lay.args[1]
        page_h == lay.args[2]
        v == lay.args[3]
        s == cm_to_points(lay.args[4])
        rows == GridRows(v)
        cols == GridCols(v)
        w == (page_w - (cols + 1) * s) \div cols
        h == (page_h - (rows + 1) * s) \div rows
    IN  /\ Len(lay.slots) = v
        /\ \A r \in 0..(rows - 1), c \in 0..(cols - 1) :
              lay.slots[r * cols + c + 1] = <<s + c * (w + s), s + r * (h + s), w, h>>
        /\ \A i \in 1..v, j \in 1..v :
              i /= j => ~Overlap(lay.slots[i], lay.slots[j])
        /\ \A i \in 1..v : Contained(lay.slots[i], page_w, page_h)

\* The spacing leaves slots of non-negative width and height.
SpacingFits ==
    LET s == cm_to_points(lay.args[4])
        v == lay.args[3]
    IN  /\ (GridCols(v) + 1) * s <= lay.args[1]
        /\ (GridRows(v) + 1) * s <= lay.args[2]

\* C7 as stated: for v in {1,2,4,8}, any sheet and any spacing >= 0 the
\* result is the v slots of the grid in fill order, pairwise non-overlapping
\* and within the sheet.
C7_AnySpacing ==
    (lay.done /\ lay.args[3] \in Supported) => SlotsAsSpecified

\* C7 amended: the same, for the spacings that leave slots of non-negative
\* width and height.
C7_FittingSpacing ==
    (lay.done /\ lay.args[3] \in Supported /\ SpacingFits) => SlotsAsSpecified

\* C7's case: 8 slots computed on a sheet with a positive spacing that fits.
C7_Witness ==
    /\ lay.done
    /\ lay.args[3] = 8
    /\ lay.args[4] > 0
    /\ SpacingFits
    /\ Len(lay.slots) = 8

\* C8: the page order recorded for the selected document, and the one
\* generate_preview computes, is the sequence of original page indices in
\* their displayed order.
C8_RecordedOrderIsDisplayed ==
    /\ (current_row \in DOMAIN page_order_dict /\ pages_list /= <<>>) =>
          page_order_dict[current_row] = pages_list
    /\ preview.called => preview.page_order = preview.rows

\* C9: every key k of page_order_dict is a position of files and its order
\* is a permutation of the pages of the document at position k.
C9_DictMatchesFiles ==
    \A k \in DOMAIN page_order_dict :
        /\ 0 <= k /\ k < Len(files)
        /\ Len(page_order_dict[k]) = files[k + 1].num_pages
        /\ Range(page_order_dict[k]) = 0..(files[k + 1].num_pages - 1)

\* C10: the worker generates the documents registered at the click, each
\* once, in list order, with the page orders of the click; its progress
\* values lie in 0..100 and the last one of a finished run is 100.
C10_WorkerSeesClickState ==
    /\ \A i \in 1..Len(progress) : progress[i] \in 0..100
    /\ \A i \in 1..Len(calls) :
          /\ i <= Len(clicked.files)
          /\ calls[i].item = clicked.files[i]
          /\ PageIndices(calls[i].order, calls[i].item.num_pages)
                = PageIndices(Get(clicked.dict, i - 1), calls[i].item.num_pages)
    /\ finished = 1 =>
          /\ Len(calls) = Len(clicked.files)
          /\ Len(progress) > 0
          /\ progress[Len(progress)] = 100

=============================================================================
